---- MODULE Spec2Model ----
(***************************************************************************)
(* Model of lint_python/lint_python.py: configuration discovery            *)
(* (pyproject.toml, .github/workflows/*.yml), validation against the       *)
(* running version, and the sequence of external commands main() runs.     *)
(*                                                                         *)
(* Strings the code inspects character by character (version strings, the  *)
(* `uses` reference, extra-requirements) are sequences of one-character    *)
(* strings.  A mapping with optional keys is a record over all recognised  *)
(* keys whose value is <<>> (key absent) or <<v>> (key present, value v).  *)
(* Python's None for an Optional result is <<>>, a value x is <<x>>.       *)
(***************************************************************************)
EXTENDS Integers, Sequences, FiniteSets, TLC

\* ------------------------------------------------------------------------
\* Bounds of the model
\* ------------------------------------------------------------------------
MaxFiles == 2

\* ------------------------------------------------------------------------
\* String primitives (Python str methods used by the code)
\* ------------------------------------------------------------------------
\* s.startswith(p)
StartsWith(s, p) ==
    /\ Len(p) <= Len(s)
    /\ SubSeq(s, 1, Len(p)) = p

\* index of the first occurrence of sep in s, 0 when there is none
Find(s, sep) ==
    LET hits == {i \in 1..(Len(s) - Len(sep) + 1) :
                    SubSeq(s, i, i + Len(sep) - 1) = sep}
    IN  IF hits = {} THEN 0
        ELSE CHOOSE i \in hits : \A j \in hits : i <= j

\* sep in s
Contains(s, sep) == Find(s, sep) # 0

\* s.split(sep)[1], for s that contains sep: the piece between the first
\* occurrence of sep and the next one (or the end of s)
SplitSecond(s, sep) ==
    LET i    == Find(s, sep)
        rest == SubSeq(s, i + Len(sep), Len(s))
        j    == Find(rest, sep)
    IN  IF j = 0 THEN rest ELSE SubSeq(rest, 1, j - 1)

\* s.split(): the maximal runs of non-blank characters of s
RECURSIVE SplitWs(_)
SplitWs(s) ==
    IF s = <<>> THEN <<>>
    ELSE IF Head(s) = " " THEN SplitWs(Tail(s))
    ELSE LET blanks == {i \in 1..Len(s) : s[i] = " "}
             cut    == IF blanks = {} THEN Len(s) + 1
                       ELSE CHOOSE i \in blanks : \A j \in blanks : i <= j
         IN  <<SubSeq(s, 1, cut - 1)>> \o SplitWs(SubSeq(s, cut, Len(s)))

\* ------------------------------------------------------------------------
\* Literals
\* ------------------------------------------------------------------------
ACTION_PREFIX == <<"C","E","R","T","-","P","o","l","s","k","a","/","l","i","n","t","-","p","y","t","h","o","n","-","a","c","t","i","o","n">>
AT_V == <<"@","v">>
DOT == <<".">>
CHECKOUT == <<"a","c","t","i","o","n","s","/","c","h","e","c","k","o","u","t","@","v","4">>
USED_LINTERS == <<"USED_LINTERS">>

V_2 == <<"2">>
V_3 == <<"3">>
V_20 == <<"2","0">>
V_2_3 == <<"2",".","3">>
V_2_3_1 == <<"2",".","3",".","1">>
V_2_5_1 == <<"2",".","5",".","1">>
V_3_0_0 == <<"3",".","0",".","0">>
V_20_0_0 == <<"2","0",".","0",".","0">>
V_2_AT_3 == <<"2","@","v","3">>

\* ------------------------------------------------------------------------
\* LintPythonConfig
\* ------------------------------------------------------------------------
Fields == {"source", "lint-version", "use-isort", "use-black", "use-flake8",
           "use-mypy", "extra-requirements"}

LintPythonConfig == [k \in Fields |-> <<>>]

\* key in config
Has(config, k) == config[k] # <<>>

\* config.get(k, default)
Get(config, k, default) == IF Has(config, k) THEN config[k][1] ELSE default

\* bool(config): a dict is true when it has at least one key
Truthy(config) == \E k \in Fields : Has(config, k)

Set(config, k, v) == [config EXCEPT ![k] = <<v>>]

\* ------------------------------------------------------------------------
\* Log records: level, emitting function, message, formatted arguments
\* ------------------------------------------------------------------------
LogLine(level, fn, msg, arg) ==
    [level |-> level, fn |-> fn, msg |-> msg, arg |-> arg]

\* ------------------------------------------------------------------------
\* discover_toml_config
\* ------------------------------------------------------------------------
\* pyproject.toml on disk: exists or not; parses or not; the parsed document
\* has a `tool` table or not; the table has a `lint-python` section or not.
NoTools == [lint_python |-> <<>>]

PyProject(exists, parse, tool) ==
    [exists |-> exists, parse |-> parse, tool |-> tool]

\* Result of a call: the exception that escapes it ("" for a normal return),
\* the returned Optional value and the log lines it emitted.
Result(raised, val, lines) == [raised |-> raised, val |-> val, log |-> lines]

discover_toml_config(pp) ==
    IF ~pp.exists THEN Result("", <<>>, <<>>)
    ELSE IF pp.parse = "error"
    THEN \* the except clause logs and falls through to line 43, where
         \* pyproject_tools was never bound
         Result("UnboundLocalError", <<>>,
                <<LogLine("ERROR", "discover_toml_config",
                          "Unable to parse pyproject.toml file.", <<>>)>>)
    ELSE LET pyproject_tools == IF pp.tool = <<>> THEN NoTools ELSE pp.tool[1]
         IN  IF pyproject_tools.lint_python # <<>>
             THEN Result("", <<pyproject_tools.lint_python[1]>>, <<>>)
             ELSE Result("", <<>>, <<>>)

\* ------------------------------------------------------------------------
\* discover_github_action_step
\* ------------------------------------------------------------------------
\* A step has optional `uses` and `with`; a job has an optional `steps`
\* sequence; a workflow file either fails to parse or is a document with an
\* optional `jobs` mapping (kept in iteration order).
Step(uses, with) == [uses |-> uses, with |-> with]
NoStep == Step(<<>>, <<>>)
Job(steps) == [steps |-> steps]
YmlFile(name, parse, jobs) == [name |-> name, parse |-> parse, jobs |-> jobs]

ScanResult(kind, step) == [kind |-> kind, step |-> step]

\* for step in job_spec.get("steps", []): kind is "found" (return step),
\* "none" (loop ran out) or "raise" (step.get("uses") is None and has no
\* startswith)
RECURSIVE scan_steps(_)
scan_steps(steps) ==
    IF steps = <<>> THEN ScanResult("none", NoStep)
    ELSE LET step == Head(steps)
         IN  IF step.uses = <<>> THEN ScanResult("raise", NoStep)
             ELSE IF StartsWith(step.uses[1], ACTION_PREFIX)
                  THEN ScanResult("found", step)
                  ELSE scan_steps(Tail(steps))

\* for job, job_spec in workflow_spec["jobs"].items()
RECURSIVE scan_jobs(_)
scan_jobs(jobs) ==
    IF jobs = <<>> THEN ScanResult("none", NoStep)
    ELSE LET job_spec == Head(jobs)
             r == scan_steps(IF job_spec.steps = <<>> THEN <<>>
                             ELSE job_spec.steps[1])
         IN  IF r.kind = "none" THEN scan_jobs(Tail(jobs)) ELSE r

\* body of the try block for one file
scan_yml_file(yml_file) ==
    IF yml_file.parse = "error" THEN ScanResult("raise", NoStep)
    ELSE IF yml_file.jobs = <<>> THEN ScanResult("raise", NoStep)
    ELSE scan_jobs(yml_file.jobs[1])

\* the try statement around the whole loop: an exception ends the scan
after_yml_file_abort(kind, idx, n) ==
    IF kind = "found" THEN "return"
    ELSE IF kind = "raise" THEN "none"
    ELSE IF idx < n THEN "next" ELSE "none"

\* What the for loop over the files does with the outcome of one file,
\* idx being the file's position among n files: "return" the step, go on
\* to the "next" file, or leave the loop and return None ("none").  An
\* exception is caught inside the loop body, so it only ends this file.
after_yml_file(kind, idx, n) ==
    IF kind = "found" THEN "return"
    ELSE IF idx < n THEN "next" ELSE "none"

\* ------------------------------------------------------------------------
\* discover_config, lines 72-75: the record built from a workflow step
\* ------------------------------------------------------------------------
\* a lint-version given in `with` kept instead of being overwritten
config_from_step_keep(step) ==
    IF step.with = <<>> THEN Result("KeyError", <<>>, <<>>)
    ELSE LET config == step.with[1]
         IN  IF Contains(step.uses[1], AT_V) /\ ~Has(config, "lint-version")
             THEN Result("", <<Set(config, "lint-version",
                                   SplitSecond(step.uses[1], AT_V))>>, <<>>)
             ELSE Result("", <<config>>, <<>>)

\* dict(step["with"]) raises KeyError for a step without `with`
config_from_step(step) ==
    IF step.with = <<>> THEN Result("KeyError", <<>>, <<>>)
    ELSE LET config == step.with[1]
         IN  IF Contains(step.uses[1], AT_V)
             THEN Result("", <<Set(config, "lint-version",
                                   SplitSecond(step.uses[1], AT_V))>>, <<>>)
             ELSE Result("", <<config>>, <<>>)

\* ------------------------------------------------------------------------
\* validate_config
\* ------------------------------------------------------------------------
Verdict(ret, lines) == [ret |-> ret, log |-> lines]

SourceRequired ==
    LogLine("ERROR", "validate_config",
            "'source' is required field in lint-python configuration.",
            <<"source">>)
VersionUnspecified ==
    LogLine("WARNING", "validate_config",
            "Required lint-python version is unspecified.", <<>>)
RequiredVersion(lint_version) ==
    LogLine("DEBUG", "validate_config", "Required version", <<lint_version>>)
VersionMismatch(ver, lint_version) ==
    LogLine("ERROR", "validate_config", "Version mismatch",
            <<ver, lint_version>>)

\* the comparison without the appended "."
validate_config_no_dot(config, ver) ==
    IF ~Has(config, "source") THEN Verdict(FALSE, <<SourceRequired>>)
    ELSE IF ~Has(config, "lint-version")
    THEN Verdict(TRUE, <<VersionUnspecified>>)
    ELSE LET lint_version == config["lint-version"][1]
         IN  IF ~StartsWith(ver, lint_version)
             THEN Verdict(FALSE, <<RequiredVersion(lint_version),
                                   VersionMismatch(ver, lint_version)>>)
             ELSE Verdict(TRUE, <<RequiredVersion(lint_version)>>)

\* the two membership tests in the other order
validate_config_version_first(config, ver) ==
    IF ~Has(config, "lint-version") THEN Verdict(TRUE, <<VersionUnspecified>>)
    ELSE IF ~Has(config, "source") THEN Verdict(FALSE, <<SourceRequired>>)
    ELSE LET lint_version ==
                 IF ~Contains(config["lint-version"][1], DOT)
                 THEN config["lint-version"][1] \o DOT
                 ELSE config["lint-version"][1]
         IN  IF ~StartsWith(ver, lint_version)
             THEN Verdict(FALSE, <<RequiredVersion(lint_version),
                                   VersionMismatch(ver, lint_version)>>)
             ELSE Verdict(TRUE, <<RequiredVersion(lint_version)>>)

\* an unspecified version treated as a failure
validate_config_strict(config, ver) ==
    IF ~Has(config, "source") THEN Verdict(FALSE, <<SourceRequired>>)
    ELSE IF ~Has(config, "lint-version")
    THEN Verdict(FALSE, <<VersionUnspecified>>)
    ELSE LET lint_version ==
                 IF ~Contains(config["lint-version"][1], DOT)
                 THEN config["lint-version"][1] \o DOT
                 ELSE config["lint-version"][1]
         IN  IF ~StartsWith(ver, lint_version)
             THEN Verdict(FALSE, <<RequiredVersion(lint_version),
                                   VersionMismatch(ver, lint_version)>>)
             ELSE Verdict(TRUE, <<RequiredVersion(lint_version)>>)

validate_config(config, ver) ==
    IF ~Has(config, "source") THEN Verdict(FALSE, <<SourceRequired>>)
    ELSE IF ~Has(config, "lint-version")
    THEN Verdict(TRUE, <<VersionUnspecified>>)
    ELSE LET lint_version ==
                 IF ~Contains(config["lint-version"][1], DOT)
                 THEN config["lint-version"][1] \o DOT
                 ELSE config["lint-version"][1]
         IN  IF ~StartsWith(ver, lint_version)
             THEN Verdict(FALSE, <<RequiredVersion(lint_version),
                                   VersionMismatch(ver, lint_version)>>)
             ELSE Verdict(TRUE, <<RequiredVersion(lint_version)>>)

\* ------------------------------------------------------------------------
\* perform_pip_install, perform_linting, run_command
\* ------------------------------------------------------------------------
Tools == <<"isort", "black", "flake8", "mypy">>
UseField == [isort |-> "use-isort", black |-> "use-black",
             flake8 |-> "use-flake8", mypy |-> "use-mypy"]

\* config.get("use-<tool>", True)
use_tool(config, tool) == Get(config, UseField[tool], TRUE)

\* argument list of run_tool: only isort and black are passed check=
tool_args(config, tool, check_only) ==
    (IF tool \in {"isort", "black"} /\ check_only THEN <<"--check">> ELSE <<>>)
        \o <<config["source"][1]>>

\* argument list of the pip invocation
pip_args(config, with_extra) ==
    <<"install", "-U">> \o USED_LINTERS \o
        (IF with_extra
         THEN SplitWs(Get(config, "extra-requirements", <<>>))
         ELSE <<>>)

\* one subprocess.run(check=True): the module, its arguments and whether
\* the command exited with status 0
Command(module, cargs, ok) == [module |-> module, args |-> cargs, ok |-> ok]

\* check=False: a failing command does not raise
after_command_ignore(ok, next) == next

\* where main goes after a command: a CalledProcessError leaves the try
\* block for sys.exit(1); otherwise control reaches the next statement

after_command(ok, next) == IF ok THEN next ELSE "exited"

\* the verdict of validate_config not tested
after_validate_ignore(ret) == "pip"

\* where main goes after validate_config (lines 178-180)

after_validate(ret) == IF ret THEN "pip" ELSE "exited"

\* where main goes after discover_config (lines 171-176): `not lint_config`
\* is true for None and for a record without keys
after_discover(lint_config) ==
    IF lint_config = <<>> \/ ~Truthy(lint_config[1])
    THEN "exited" ELSE "validate"

\* ------------------------------------------------------------------------
\* Inputs: what is on disk, the running version, the command line
\* ------------------------------------------------------------------------
SRC == Set(LintPythonConfig, "source", "src/")
EXTRAS == <<"p","1"," "," ","p","2">>

\* [tool.lint-python] sections that differ in `source` and `lint-version`
VersionSections ==
    { LintPythonConfig,
      SRC,
      Set(SRC, "lint-version", V_2),
      Set(SRC, "lint-version", V_2_3),
      Set(SRC, "lint-version", V_20),
      Set(LintPythonConfig, "lint-version", V_2),
      Set(LintPythonConfig, "lint-version", V_3),
      Set(LintPythonConfig, "use-mypy", FALSE),
      Set(Set(SRC, "lint-version", V_3), "extra-requirements", EXTRAS) }

\* sections that differ in which use-* switches are absent, true or false
SwitchSections ==
    { [k \in Fields |->
          IF k = "source" THEN <<"src/">>
          ELSE IF k = "extra-requirements" THEN <<EXTRAS>>
          ELSE IF k = "use-isort" THEN f[1]
          ELSE IF k = "use-black" THEN f[2]
          ELSE IF k = "use-flake8" THEN f[3]
          ELSE IF k = "use-mypy" THEN f[4]
          ELSE <<>>] : f \in [1..4 -> {<<>>, <<TRUE>>, <<FALSE>>}] }

PyProjects(sections) ==
    { PyProject(FALSE, "ok", <<>>),
      PyProject(TRUE, "error", <<>>),
      PyProject(TRUE, "ok", <<>>),
      PyProject(TRUE, "ok", <<NoTools>>) }
    \cup { PyProject(TRUE, "ok", <<[lint_python |-> <<c>>]>>) : c \in sections }

\* workflow files
RunStep == Step(<<>>, <<>>)
CheckoutStep == Step(<<CHECKOUT>>, <<>>)

YmlFiles ==
    { \* does not parse
      YmlFile("broken.yml", "error", <<>>),
      \* no step of this action
      YmlFile("build.yml", "ok", <<<<Job(<<<<CheckoutStep>>>>)>>>>),
      \* uses: CERT-Polska/lint-python-action@v2.3.1, with: {source: src/}
      YmlFile("pinned.yml", "ok",
              <<<<Job(<<<<CheckoutStep,
                          Step(<<ACTION_PREFIX \o AT_V \o V_2_3_1>>,
                               <<SRC>>)>>>>)>>>>),
      \* a job without steps, then a `run` step before the action's step,
      \* whose `with` carries its own lint-version
      YmlFile("run.yml", "ok",
              <<<<Job(<<>>),
                  Job(<<<<RunStep,
                          Step(<<ACTION_PREFIX \o AT_V \o V_2>>,
                               <<Set(SRC, "lint-version", V_3)>>)>>>>)>>>>),
      \* a reference with two "@v", the action's step in the second job
      YmlFile("twice.yml", "ok",
              <<<<Job(<<<<CheckoutStep>>>>),
                  Job(<<<<Step(<<ACTION_PREFIX \o AT_V \o V_2_AT_3>>,
                               <<Set(SRC, "lint-version", V_3)>>),
                          Step(<<ACTION_PREFIX \o AT_V \o V_3>>,
                               <<SRC>>)>>>>)>>>>),
      \* an unpinned reference; `with` names the version
      YmlFile("unpinned.yml", "ok",
              <<<<Job(<<<<Step(<<ACTION_PREFIX>>,
                               <<Set(Set(SRC, "lint-version", V_2),
                                     "use-black", FALSE)>>)>>>>)>>>>),
      \* the action's step without `with`
      YmlFile("bare.yml", "ok",
              <<<<Job(<<<<Step(<<ACTION_PREFIX \o AT_V \o V_2>>,
                               <<>>)>>>>)>>>>) }

\* the sequences glob("*.yml") can yield: distinct files, in any order
RECURSIVE Listings(_)
Listings(n) ==
    IF n = 0 THEN {<<>>}
    ELSE Listings(n - 1) \cup
         { Append(l, f) : l \in {m \in Listings(n - 1) : Len(m) = n - 1},
                          f \in YmlFiles }

Distinct(l) == \A i, j \in 1..Len(l) : i # j => l[i] # l[j]

Workflows ==
    { [exists |-> FALSE, files |-> <<>>] } \cup
    { [exists |-> TRUE, files |-> l] : l \in {m \in Listings(MaxFiles) : Distinct(m)} }

Versions == {V_2_5_1, V_20_0_0, V_3_0_0, V_2_3_1}

Args(install, install_only, check, with_extras) ==
    [install |-> install, install_only |-> install_only,
     check |-> check, with_extras |-> with_extras]

AllArgs == { Args(a, b, c, d) : a, b, c, d \in BOOLEAN }

\* ------------------------------------------------------------------------
\* State of one invocation of main
\* ------------------------------------------------------------------------
VARIABLES
    pyproject,      \* ./pyproject.toml
    workflows,      \* .github/workflows and its *.yml files, in glob order
    version,        \* __version__
    args,           \* parsed command line
    pc,             \* where main is
    scanner_called, \* discover_github_action_step has been entered
    yml_idx,        \* position of the for loop over the workflow files
    opened,         \* names of the workflow files opened so far
    step,           \* result of discover_github_action_step
    lint_config,    \* result of discover_config
    valid,          \* result of validate_config
    cmds,           \* external commands run so far
    log,            \* log lines emitted so far
    raised,         \* exception that escaped main ("" when none)
    exit_status     \* process exit status, once exited

vars == <<pyproject, workflows, version, args, pc, scanner_called, yml_idx,
          opened, step, lint_config, valid, cmds, log, raised, exit_status>>

inputs == <<pyproject, workflows, version, args>>

Started ==
    /\ pc = "discover_toml"
    /\ scanner_called = FALSE
    /\ yml_idx = 0
    /\ opened = <<>>
    /\ step = <<>>
    /\ lint_config = <<>>
    /\ valid = <<>>
    /\ cmds = <<>>
    /\ log = <<>>
    /\ raised = ""
    /\ exit_status = <<>>

\* every project layout and running version, with three command lines
InitDiscovery ==
    /\ pyproject \in PyProjects(VersionSections)
    /\ workflows \in Workflows
    /\ version \in Versions
    /\ args \in {Args(FALSE, FALSE, FALSE, TRUE), Args(TRUE, FALSE, TRUE, TRUE),
                 Args(FALSE, TRUE, FALSE, FALSE)}
    /\ Started

\* every command line and every setting of the use-* switches
InitLinting ==
    /\ pyproject \in PyProjects(SwitchSections)
    /\ workflows = [exists |-> FALSE, files |-> <<>>]
    /\ version = V_2_5_1
    /\ args \in AllArgs
    /\ Started

Init == InitDiscovery \/ InitLinting

\* sys.exit(code), or an uncaught exception (status 1)
Exit(code, exc) ==
    /\ pc' = "exited"
    /\ exit_status' = <<code>>
    /\ raised' = exc

\* discover_config, lines 69-70
DiscoverTomlConfig ==
    /\ pc = "discover_toml"
    /\ LET r == discover_toml_config(pyproject)
       IN  /\ log' = log \o r.log
           /\ IF r.raised # ""
              THEN /\ Exit(1, r.raised)
                   /\ UNCHANGED lint_config
              ELSE IF r.val # <<>> /\ Truthy(r.val[1])
              THEN /\ lint_config' = r.val
                   /\ pc' = "check"
                   /\ UNCHANGED <<raised, exit_status>>
              ELSE /\ pc' = "discover_step"
                   /\ UNCHANGED <<lint_config, raised, exit_status>>
    /\ UNCHANGED <<inputs, scanner_called, yml_idx, opened, step, valid, cmds>>

\* discover_github_action_step, lines 49-53: entry and start of the loop
DiscoverGithubActionStep ==
    /\ pc = "discover_step"
    /\ scanner_called' = TRUE
    /\ IF workflows.exists /\ workflows.files # <<>>
       THEN /\ yml_idx' = 1
            /\ pc' = "scan"
       ELSE /\ pc' = "resolve"
            /\ UNCHANGED yml_idx
    /\ UNCHANGED <<inputs, opened, step, lint_config, valid, cmds, log,
                   raised, exit_status>>

\* discover_github_action_step, lines 53-65: one iteration of the loop
ScanYmlFile ==
    /\ pc = "scan"
    /\ LET yml_file == workflows.files[yml_idx]
           r == scan_yml_file(yml_file)
           next == after_yml_file(r.kind, yml_idx, Len(workflows.files))
       IN  /\ opened' = Append(opened, yml_file.name)
           /\ log' = IF r.kind = "raise"
                     THEN Append(log, LogLine("ERROR",
                                              "discover_github_action_step",
                                              "Unable to parse",
                                              <<yml_file.name>>))
                     ELSE log
           /\ step' = IF next = "return" THEN <<r.step>> ELSE step
           /\ yml_idx' = IF next = "next" THEN yml_idx + 1 ELSE yml_idx
           /\ pc' = IF next = "next" THEN "scan" ELSE "resolve"
    /\ UNCHANGED <<inputs, scanner_called, lint_config, valid, cmds, raised,
                   exit_status>>

\* discover_config, lines 71-76
ResolveConfig ==
    /\ pc = "resolve"
    /\ IF step = <<>>
       THEN /\ pc' = "check"
            /\ UNCHANGED <<lint_config, raised, exit_status>>
       ELSE LET r == config_from_step(step[1])
            IN  IF r.raised # ""
                THEN /\ Exit(1, r.raised)
                     /\ UNCHANGED lint_config
                ELSE /\ lint_config' = r.val
                     /\ pc' = "check"
                     /\ UNCHANGED <<raised, exit_status>>
    /\ UNCHANGED <<inputs, scanner_called, yml_idx, opened, step, valid, cmds,
                   log>>

\* main, lines 171-176
CheckDiscovered ==
    /\ pc = "check"
    /\ LET next == after_discover(lint_config)
       IN  IF next = "exited"
           THEN /\ log' = Append(log, LogLine("ERROR", "main",
                        "lint-python configuration not discovered in project.",
                        <<>>))
                /\ Exit(1, "")
           ELSE /\ pc' = next
                /\ UNCHANGED <<log, raised, exit_status>>
    /\ UNCHANGED <<inputs, scanner_called, yml_idx, opened, step, lint_config,
                   valid, cmds>>

\* main, lines 178-180
ValidateConfig ==
    /\ pc = "validate"
    /\ LET r == validate_config(lint_config[1], version)
           next == after_validate(r.ret)
       IN  /\ valid' = <<r.ret>>
           /\ IF next = "exited"
              THEN /\ log' = log \o r.log \o
                        <<LogLine("ERROR", "main",
                          "lint-python configuration not validated correctly.",
                          <<>>)>>
                   /\ Exit(1, "")
              ELSE /\ log' = log \o r.log
                   /\ pc' = next
                   /\ UNCHANGED <<raised, exit_status>>
    /\ UNCHANGED <<inputs, scanner_called, yml_idx, opened, step, lint_config,
                   cmds>>

\* run_command inside main's try block, after the lines `pre` its caller
\* logged: the command is logged and run; its failure is caught at line 187
RunCommand(module, cargs, ok, next, pre) ==
    LET to == after_command(ok, next)
        running == LogLine("DEBUG", "run_command", "Running command",
                           <<module>>)
    IN  /\ cmds' = Append(cmds, Command(module, cargs, ok))
        /\ IF to = "exited"
           THEN /\ log' = log \o pre \o
                        <<running, LogLine("ERROR", "main", "Command failed",
                                           <<module>>)>>
                /\ Exit(1, "")
           ELSE /\ log' = log \o pre \o <<running>>
                /\ pc' = to
                /\ UNCHANGED <<raised, exit_status>>

\* main, lines 183-184
PerformPipInstall ==
    /\ pc = "pip"
    /\ LET next == IF args.install_only THEN "done" ELSE "isort"
       IN  IF args.install \/ args.install_only
           THEN \E ok \in BOOLEAN :
                   RunCommand("pip", pip_args(lint_config[1], args.with_extras),
                              ok, next, <<>>)
           ELSE /\ pc' = next
                /\ UNCHANGED <<cmds, log, raised, exit_status>>
    /\ UNCHANGED <<inputs, scanner_called, yml_idx, opened, step, lint_config,
                   valid>>

\* perform_linting: the i-th `if config.get(...): run_tool(...)`
RunTool(i) ==
    /\ pc = Tools[i]
    /\ LET next == IF i < Len(Tools) THEN Tools[i + 1] ELSE "done"
       IN  IF use_tool(lint_config[1], Tools[i])
           THEN \E ok \in BOOLEAN :
                   RunCommand(Tools[i],
                              tool_args(lint_config[1], Tools[i], args.check),
                              ok, next,
                              <<LogLine("INFO", "run_tool", "Linting with",
                                        <<Tools[i]>>)>>)
           ELSE /\ pc' = next
                /\ UNCHANGED <<cmds, log, raised, exit_status>>
    /\ UNCHANGED <<inputs, scanner_called, yml_idx, opened, step, lint_config,
                   valid>>

RunIsort == RunTool(1)
RunBlack == RunTool(2)
RunFlake8 == RunTool(3)
RunMypy == RunTool(4)

\* main returns: the interpreter exits with status 0
MainReturn ==
    /\ pc = "done"
    /\ Exit(0, "")
    /\ UNCHANGED <<inputs, scanner_called, yml_idx, opened, step, lint_config,
                   valid, cmds, log>>

Next ==
    \/ DiscoverTomlConfig
    \/ DiscoverGithubActionStep
    \/ ScanYmlFile
    \/ ResolveConfig
    \/ CheckDiscovered
    \/ ValidateConfig
    \/ PerformPipInstall
    \/ RunIsort
    \/ RunBlack
    \/ RunFlake8
    \/ RunMypy
    \/ MainReturn

Spec == Init /\ [][Next]_vars

\* ------------------------------------------------------------------------
\* Vocabulary of the properties, stated without the operators above
\* ------------------------------------------------------------------------
\* p is an initial segment of s
IsPrefix(p, s) ==
    /\ Len(p) <= Len(s)
    /\ \A i \in 1..Len(p) : s[i] = p[i]

\* sep occurs in s at position i
OccursAt(s, sep, i) ==
    /\ i >= 1
    /\ i + Len(sep) - 1 <= Len(s)
    /\ \A k \in 1..Len(sep) : s[i + k - 1] = sep[k]

Occurs(s, sep) == \E i \in 1..Len(s) : OccursAt(s, sep, i)

\* the requirement with "." appended when it has none
Normalized(r) == IF \E i \in 1..Len(r) : r[i] = "." THEN r ELSE r \o <<".">>

\* everything after the first occurrence of sep in s
AfterFirst(s, sep) ==
    LET i == CHOOSE k \in 1..Len(s) :
                 OccursAt(s, sep, k) /\ \A m \in 1..(k - 1) : ~OccursAt(s, sep, m)
    IN  SubSeq(s, i + Len(sep), Len(s))

\* what follows the first occurrence of sep in s, up to the next occurrence
\* of sep or to the end of s
UpToNext(s, sep) ==
    LET tail == AfterFirst(s, sep)
    IN  IF Occurs(tail, sep)
        THEN LET j == CHOOSE k \in 1..Len(tail) :
                          OccursAt(tail, sep, k)
                          /\ \A m \in 1..(k - 1) : ~OccursAt(tail, sep, m)
             IN  SubSeq(tail, 1, j - 1)
        ELSE tail

\* the steps of a parsed workflow document, jobs in iteration order and
\* each job's steps in sequence order
RECURSIVE Flatten(_)
Flatten(jobs) ==
    IF jobs = <<>> THEN <<>>
    ELSE (IF Head(jobs).steps = <<>> THEN <<>> ELSE Head(jobs).steps[1])
         \o Flatten(Tail(jobs))

StepsOf(f) == IF f.parse = "ok" /\ f.jobs # <<>> THEN Flatten(f.jobs[1]) ELSE <<>>

Matches(st) == st.uses # <<>> /\ IsPrefix(ACTION_PREFIX, st.uses[1])

MatchPositions(f) == {i \in 1..Len(StepsOf(f)) : Matches(StepsOf(f)[i])}

HasMatch(f) == MatchPositions(f) # {}

FirstMatch(f) ==
    StepsOf(f)[CHOOSE i \in MatchPositions(f) : \A j \in MatchPositions(f) : i <= j]

\* a step without `uses` comes before the first matching step of f
UsesLessBeforeMatch(f) ==
    \E i \in 1..Len(StepsOf(f)) :
        /\ StepsOf(f)[i].uses = <<>>
        /\ \A j \in MatchPositions(f) : i < j

\* log lines of one function at one level
Lines(fn, level) == SelectSeq(log, LAMBDA l : l.fn = fn /\ l.level = level)

\* parse-failure lines naming one workflow file
ParseFailures(name) ==
    SelectSeq(Lines("discover_github_action_step", "ERROR"),
              LAMBDA l : l.arg[1] = name)

\* discover_github_action_step has returned
ScannerReturned == scanner_called /\ pc # "scan"

\* discover_config has returned or raised
DiscoveryOver == pc \notin {"discover_toml", "discover_step", "scan", "resolve"}

HasSection ==
    /\ pyproject.exists
    /\ pyproject.parse = "ok"
    /\ pyproject.tool # <<>>
    /\ pyproject.tool[1].lint_python # <<>>

Modules == [i \in 1..Len(cmds) |-> cmds[i].module]

\* ------------------------------------------------------------------------
\* Properties
\* ------------------------------------------------------------------------

\* C1: an external command is run only after discover_config produced a
\* configuration record and validate_config returned true for it; when
\* discovery yields no record or validate_config returns false, no command
\* is ever run and the process exits with a non-zero status.
C1_CommandsOnlyAfterValidation ==
    /\ cmds # <<>> => lint_config # <<>> /\ valid = <<TRUE>>
    /\ pc \in {"pip", "isort", "black", "flake8", "mypy", "done"}
           => lint_config # <<>> /\ valid = <<TRUE>>
    /\ valid = <<FALSE>>
           => pc = "exited" /\ exit_status = <<1>> /\ cmds = <<>>
    /\ DiscoveryOver /\ lint_config = <<>>
           => /\ cmds = <<>>
              /\ valid = <<>>
              /\ pc \in {"check", "exited"}
              /\ pc = "exited" => exit_status = <<1>>

C1_Witness ==
    /\ pc = "exited"
    /\ lint_config # <<>>
    /\ valid = <<FALSE>>
    /\ cmds = <<>>
    /\ exit_status = <<1>>

\* C2: for a record with `source` and a `lint-version` string r and a running
\* version v, validate_config passes iff v starts with r normalized (r + "."
\* when r has no ".", else r); "2" passes against "2.5.1" and fails against
\* "20.0.0" and "3.0.0"; "2.3" passes against "2.3.1".
C2_PrefixMatch ==
    valid # <<>> /\ Has(lint_config[1], "source")
                 /\ Has(lint_config[1], "lint-version")
    => LET r == lint_config[1]["lint-version"][1]
       IN  /\ valid[1] <=> IsPrefix(Normalized(r), version)
           /\ r = V_2 /\ version = V_2_5_1 => valid[1]
           /\ r = V_2 /\ version \in {V_20_0_0, V_3_0_0} => ~valid[1]
           /\ r = V_2_3 /\ version = V_2_3_1 => valid[1]

C2_Witness ==
    /\ valid = <<FALSE>>
    /\ Has(lint_config[1], "source")
    /\ lint_config[1]["lint-version"] = <<V_2>>
    /\ version = V_20_0_0

\* C8: for a record lacking `source`, whatever its other fields,
\* validate_config returns false and emits exactly one error line, which
\* names `source`.
C8_SourceRequired ==
    valid # <<>> /\ ~Has(lint_config[1], "source")
    => /\ valid = <<FALSE>>
       /\ Len(Lines("validate_config", "ERROR")) = 1
       /\ Lines("validate_config", "ERROR")[1].arg = <<"source">>
       /\ Lines("validate_config", "WARNING") = <<>>

C8_Witness ==
    /\ valid = <<FALSE>>
    /\ ~Has(lint_config[1], "source")
    /\ lint_config[1]["lint-version"] = <<V_2>>
    /\ version = V_2_5_1

\* C9: for a record with `source` and no `lint-version`, validate_config
\* returns true for every running version and emits exactly one warning
\* line and no error line.
C9_VersionOptional ==
    valid # <<>> /\ Has(lint_config[1], "source")
                 /\ ~Has(lint_config[1], "lint-version")
    => /\ valid = <<TRUE>>
       /\ Len(Lines("validate_config", "WARNING")) = 1
       /\ Lines("validate_config", "ERROR") = <<>>

C9_Witness ==
    /\ valid = <<TRUE>>
    /\ Has(lint_config[1], "source")
    /\ ~Has(lint_config[1], "lint-version")
    /\ Len(Lines("validate_config", "WARNING")) = 1
    /\ version = V_3_0_0

\* the fixed plan of C10
Wanted(tool) ==
    \/ lint_config[1][UseField[tool]] = <<>>
    \/ lint_config[1][UseField[tool]] = <<TRUE>>

Plan ==
    (IF args.install \/ args.install_only THEN <<"pip">> ELSE <<>>)
    \o (IF args.install_only THEN <<>>
        ELSE SelectSeq(<<"isort", "black", "flake8", "mypy">>, Wanted))

\* C10: after validation passes, the commands run are always a prefix of the
\* plan [pip install if --install or --install-only; then, unless
\* --install-only, isort, black, flake8, mypy for the tools whose use-* is
\* true or absent], cut right after the first failing command; after a
\* failure no command is run and the process exits with status 1.
C10_PlanPrefix ==
    valid = <<TRUE>>
    => /\ IsPrefix(Modules, Plan)
       /\ \A i \in 1..(Len(cmds) - 1) : cmds[i].ok
       /\ cmds # <<>> /\ ~cmds[Len(cmds)].ok
              => pc = "exited" /\ exit_status = <<1>>
       /\ pc = "exited" /\ (\A i \in 1..Len(cmds) : cmds[i].ok)
              => Modules = Plan /\ exit_status = <<0>>

C10_Witness ==
    /\ valid = <<TRUE>>
    /\ pc = "exited"
    /\ exit_status = <<1>>
    /\ Len(cmds) >= 2
    /\ Len(cmds) < Len(Plan)
    /\ cmds[1].module = "pip"
    /\ ~cmds[Len(cmds)].ok
    /\ lint_config[1]["use-isort"] = <<FALSE>>

\* C3: whenever the project file has a tool.lint-python section, whatever
\* its content, discover_config returns that section verbatim and the
\* workflow directory is never consulted.
C3_ProjectFileWins ==
    HasSection /\ pc # "discover_toml"
    => /\ lint_config = pyproject.tool[1].lint_python
       /\ ~scanner_called
       /\ opened = <<>>

\* the first file, in enumeration order, that parses and has a matching step
FilesWithMatch == {i \in 1..Len(workflows.files) : HasMatch(workflows.files[i])}

\* C4: for every parsed workflow document, in which any step may omit
\* `uses`, discover_github_action_step returns the first step (jobs in
\* iteration order, steps in sequence order) whose `uses` starts with
\* "CERT-Polska/lint-python-action"; non-matching steps before it, steps
\* without `uses` included, do not prevent that.
C4_FirstMatchingStep ==
    ScannerReturned /\ workflows.exists /\ FilesWithMatch # {}
    => LET i == CHOOSE k \in FilesWithMatch : \A m \in FilesWithMatch : k <= m
       IN  step = <<FirstMatch(workflows.files[i])>>

\* the workflow scanner yielded a step that has a `with` mapping, and
\* discover_config has returned
ResolvedFromStep ==
    /\ DiscoveryOver
    /\ step # <<>>
    /\ step[1].with # <<>>

\* every field of `with` other than lint-version is in the record unchanged
CopiesWith ==
    /\ lint_config # <<>>
    /\ \A k \in Fields \ {"lint-version"} : lint_config[1][k] = step[1].with[1][k]

C6_ParseFailureIsAbsence ==
    pyproject.exists /\ pyproject.parse = "error" /\ pc # "discover_toml"
    => /\ raised = ""
       /\ Len(Lines("discover_toml_config", "ERROR")) = 1
       /\ scanner_called

\* the directory of C7: one file that does not parse and one parsed file
\* with a matching step, in either order
Broken(f) == f.parse = "error"

OneBrokenOneGood(bad, good) ==
    /\ workflows.exists
    /\ Len(workflows.files) = 2
    /\ {bad, good} = {1, 2}
    /\ Broken(workflows.files[bad])
    /\ ~Broken(workflows.files[good])
    /\ HasMatch(workflows.files[good])

\* C7 as stated: in every enumeration order the scan is not aborted by the
\* malformed file, resolution succeeds with the well-formed file's step and
\* exactly one parse-failure line is emitted, for the malformed file.
C7_ExactlyOneFailureLine ==
    \A bad, good \in {1, 2} :
        OneBrokenOneGood(bad, good) /\ ScannerReturned
        => /\ step = <<FirstMatch(workflows.files[good])>>
           /\ Len(Lines("discover_github_action_step", "ERROR")) = 1
           /\ Len(ParseFailures(workflows.files[bad].name)) = 1

\* C7 amended: in every enumeration order the malformed file never aborts
\* the scan.  The scan yields the well-formed file's first matching step,
\* unless a step without `uses` precedes it in that file (C4), in which case
\* it yields nothing.  The malformed file gets exactly one parse-failure
\* line when it is opened, that is, unless the scan returned a step of a
\* well-formed file enumerated before it, and then it is not opened and
\* gets none.
C7_BrokenFileSkipped ==
    \A bad, good \in {1, 2} :
        OneBrokenOneGood(bad, good) /\ ScannerReturned
        => LET found == ~UsesLessBeforeMatch(workflows.files[good])
               skipped == good = 1 /\ found
           IN  /\ step = IF found THEN <<FirstMatch(workflows.files[good])>>
                         ELSE <<>>
               /\ Len(ParseFailures(workflows.files[bad].name))
                      = IF skipped THEN 0 ELSE 1
               /\ (workflows.files[bad].name \in {opened[i] : i \in 1..Len(opened)})
                      <=> ~skipped

C7_Witness ==
    /\ OneBrokenOneGood(1, 2)
    /\ ScannerReturned
    /\ opened = <<workflows.files[1].name, workflows.files[2].name>>
    /\ step = <<FirstMatch(workflows.files[2])>>
    /\ Len(ParseFailures(workflows.files[1].name)) = 1

====
